---- MODULE Spec2Model ----
(***************************************************************************)
(* Model of the expense-statistics service (src/services/aiService.js) and *)
(* of the two controllers that call it (src/routes/ai.route.js).           *)
(*                                                                         *)
(* JavaScript values are records tagged by the field t.  Amounts are       *)
(* integers counting cents, so 800.00 is 80000; the product firstSum*1.05  *)
(* is compared exactly (100*lastSum > 105*firstSum).  NaN is a value of    *)
(* its own: every arithmetic operation on it yields NaN and every          *)
(* comparison with it is false, as in IEEE 754.                            *)
(***************************************************************************)
EXTENDS Integers, Sequences, FiniteSets, TLC

VARIABLES
    genAI,      \* module-level client reference: "null" or "client"
    pc,         \* position of the current invocation
    op,         \* which public operation is running
    route,      \* which controller started it ("none" for a direct call)
    expenses,   \* the argument of the invocation
    stats,      \* the const stats bound in the try block
    outcome,    \* how the service promise settled
    calls,      \* generateContent calls made by the current invocation
    response    \* what the controller sent

vars == <<genAI, pc, op, route, expenses, stats, outcome, calls, response>>

----------------------------------------------------------------------------
(* JavaScript values *)

Undefined == [t |-> "undefined"]
Null == [t |-> "null"]
NaN == [t |-> "NaN"]
Num(n) == [t |-> "number", n |-> n]
Str(s) == [t |-> "string", s |-> s]
Date(d) == [t |-> "date", d |-> d]
Arr(items) == [t |-> "array", items |-> items]
Rec(amount, category, createdAt, date) ==
    [t |-> "record", description |-> Str("item"), amount |-> amount,
     category |-> category, createdAt |-> createdAt, date |-> date]

Thrown == [t |-> "throw"]

\* ToBoolean(v) = false
Falsy(v) ==
    \/ v.t \in {"undefined", "null", "NaN"}
    \/ (v.t = "number" /\ v.n = 0)
    \/ (v.t = "string" /\ v.s = "")

\* a || b
Or(a, b) == IF Falsy(a) THEN b ELSE a

IsNaN(x) == x.t = "NaN"

\* The decimal texts the model knows, with their value in cents.
DecimalText == ("0.07" :> 7) @@ ("12.50" :> 1250)

\* Number(v)
ToNumber(v) ==
    CASE v.t = "number" -> v
      [] v.t = "NaN" -> NaN
      [] v.t = "null" -> Num(0)
      [] v.t = "undefined" -> NaN
      [] v.t = "date" -> Num(v.d)
      [] v.t = "string" ->
            IF v.s = "" THEN Num(0)
            ELSE IF v.s \in DOMAIN DecimalText THEN Num(DecimalText[v.s])
            ELSE NaN
      [] OTHER -> NaN

\* a + b, a - b on numbers
Add(a, b) == IF IsNaN(a) \/ IsNaN(b) THEN NaN ELSE Num(a.n + b.n)
Sub(a, b) == IF IsNaN(a) \/ IsNaN(b) THEN NaN ELSE Num(a.n - b.n)
\* a > b on numbers
Gt(a, b) == ~IsNaN(a) /\ ~IsNaN(b) /\ a.n > b.n

\* String(v) for a property key
ToPropertyKey(v) == IF v.t = "string" THEN v.s ELSE v.t

Front(s) == SubSeq(s, 1, Len(s) - 1)
Last(s) == s[Len(s)]
Max(a, b) == IF a >= b THEN a ELSE b

----------------------------------------------------------------------------
(* computeBasicStats *)

CentsPerUnit == 100
MediumRiskAbove == 800
HighRiskAbove == 2000

NormalizeAmount(e) == ToNumber(Or(e.amount, Num(0)))
NormalizeCategory(e) == Or(e.category, Str("others"))
NormalizeDate(e) == Or(Or(e.createdAt, e.date), Null)

Normalize(e) ==
    [description |-> e.description,
     amount |-> NormalizeAmount(e),
     category |-> NormalizeCategory(e),
     date |-> NormalizeDate(e)]

\* reduce((s, e) => s + e.amount, 0)
RECURSIVE SumAmounts(_)
SumAmounts(norm) ==
    IF norm = <<>> THEN Num(0)
    ELSE Add(SumAmounts(Front(norm)), Last(norm).amount)

\* An object with ordered keys is a sequence of [key, sum] entries.
HasKey(acc, k) == \E i \in 1..Len(acc) : acc[i].key = k
GetKey(acc, k) ==
    IF HasKey(acc, k)
    THEN acc[CHOOSE i \in 1..Len(acc) : acc[i].key = k].sum
    ELSE Undefined
PutKey(acc, k, v) ==
    IF HasKey(acc, k)
    THEN [i \in 1..Len(acc) |->
            IF acc[i].key = k THEN [key |-> k, sum |-> v] ELSE acc[i]]
    ELSE Append(acc, [key |-> k, sum |-> v])

\* acc[e.category] = (acc[e.category] || 0) + e.amount
RECURSIVE CategoryBreakdown(_)
CategoryBreakdown(norm) ==
    IF norm = <<>> THEN <<>>
    ELSE LET acc == CategoryBreakdown(Front(norm))
             e == Last(norm)
             k == ToPropertyKey(e.category)
         IN PutKey(acc, k, Add(Or(GetKey(acc, k), Num(0)), e.amount))

\* (a, b) => categoryBreakdown[b] - categoryBreakdown[a]; a NaN result
\* counts as +0 in Array.prototype.sort
CompareKeys(a, b, cb) ==
    LET d == Sub(GetKey(cb, b), GetKey(cb, a))
    IN IF IsNaN(d) THEN 0 ELSE d.n

\* Stable sort: a key moves left only past keys that compare greater.
RECURSIVE InsertSorted(_, _, _)
InsertSorted(s, x, cb) ==
    IF s = <<>> THEN <<x>>
    ELSE IF CompareKeys(Last(s), x, cb) > 0
         THEN Append(InsertSorted(Front(s), x, cb), Last(s))
         ELSE Append(s, x)

RECURSIVE SortKeys(_, _)
SortKeys(keys, cb) ==
    IF keys = <<>> THEN <<>>
    ELSE InsertSorted(SortKeys(Front(keys), cb), Last(keys), cb)

ObjectKeys(cb) == [i \in 1..Len(cb) |-> cb[i].key]

TopCategory(cb) ==
    LET sorted == SortKeys(ObjectKeys(cb), cb)
    IN Or(IF sorted = <<>> THEN Undefined ELSE Str(sorted[1]), Null)

\* Slip: the lower factor used for the upper threshold.
IncreasingLowFactor(firstSum, lastSum) ==
    ~IsNaN(firstSum) /\ ~IsNaN(lastSum) /\ 100 * lastSum.n > 95 * firstSum.n

\* lastSum > firstSum * 1.05, lastSum < firstSum * 0.95
Increasing(firstSum, lastSum) ==
    ~IsNaN(firstSum) /\ ~IsNaN(lastSum) /\ 100 * lastSum.n > 105 * firstSum.n
Decreasing(firstSum, lastSum) ==
    ~IsNaN(firstSum) /\ ~IsNaN(lastSum) /\ 100 * lastSum.n < 95 * firstSum.n

Third(n) == Max(1, n \div 3)
FirstSum(norm) == SumAmounts(SubSeq(norm, 1, Third(Len(norm))))
LastSum(norm) ==
    SumAmounts(SubSeq(norm, Len(norm) - Third(Len(norm)) + 1, Len(norm)))

\* Slip: the trend is computed only for more than 3 records.
SpendingTrendOverThree(norm) ==
    IF Len(norm) > 3
    THEN IF Increasing(FirstSum(norm), LastSum(norm)) THEN "increasing"
         ELSE IF Decreasing(FirstSum(norm), LastSum(norm)) THEN "decreasing"
         ELSE "stable"
    ELSE "stable"

SpendingTrend(norm) ==
    IF Len(norm) >= 3
    THEN IF Increasing(FirstSum(norm), LastSum(norm)) THEN "increasing"
         ELSE IF Decreasing(FirstSum(norm), LastSum(norm)) THEN "decreasing"
         ELSE "stable"
    ELSE "stable"

\* Slip: thresholds compared with >= instead of >.
RiskLevelInclusive(totalAmount) ==
    IF ~IsNaN(totalAmount) /\ totalAmount.n >= HighRiskAbove * CentsPerUnit
    THEN "high"
    ELSE IF ~IsNaN(totalAmount)
              /\ totalAmount.n >= MediumRiskAbove * CentsPerUnit
    THEN "medium"
    ELSE "low"

RiskLevel(totalAmount) ==
    IF Gt(totalAmount, Num(HighRiskAbove * CentsPerUnit)) THEN "high"
    ELSE IF Gt(totalAmount, Num(MediumRiskAbove * CentsPerUnit)) THEN "medium"
    ELSE "low"

\* Slip: Math.floor in place of Math.round.
AverageTransactionFloor(totalAmount, n) ==
    IF n = 0 THEN Num(0)
    ELSE IF IsNaN(totalAmount) THEN NaN
    ELSE Num(totalAmount.n \div n)

\* Math.round(avg * 100) / 100 with avg = totalAmount / n, in cents:
\* Math.round rounds a half towards plus infinity.
AverageTransaction(totalAmount, n) ==
    IF n = 0 THEN Num(0)
    ELSE IF IsNaN(totalAmount) THEN NaN
    ELSE Num((2 * totalAmount.n + n) \div (2 * n))

\* (expenses || []) ; reading a field of a null element throws a TypeError
Items(exps) == IF Falsy(exps) THEN <<>> ELSE exps.items

computeBasicStats(exps) ==
    LET items == Items(exps) IN
    IF \E i \in 1..Len(items) : items[i].t \in {"null", "undefined"}
    THEN Thrown
    ELSE LET normalized == [i \in 1..Len(items) |-> Normalize(items[i])]
             totalAmount == SumAmounts(normalized)
             categoryBreakdown == CategoryBreakdown(normalized)
         IN [t |-> "stats",
             normalized |-> normalized,
             totalAmount |-> totalAmount,
             averageTransaction |->
                 AverageTransaction(totalAmount, Len(normalized)),
             topCategory |-> TopCategory(categoryBreakdown),
             spendingTrend |-> SpendingTrend(normalized),
             categoryBreakdown |-> categoryBreakdown,
             riskLevel |-> RiskLevel(totalAmount)]

----------------------------------------------------------------------------
(* The statistics engine on its own: an input is drawn, then             *)
(* computeBasicStats is applied to it.                                     *)

MaxRiskLen == 2
MaxAvgLen == 4
MaxTrendLen == 6
MaxExampleLen == 3
MaxCatLen == 3
MaxRawLen == 1

Plain(n) == Rec(Num(n), Str("food"), Date(1), Undefined)

\* totals around the two risk thresholds
RiskRecords == {Plain(n) : n \in {1, 79999, 80000, 120000, 120001}}
\* small totals over several counts
AvgRecords == {Plain(n) : n \in {-1, 0, 1, 2}}
\* the amounts 10 and 20
ExampleRecords == {Plain(n) : n \in {1000, 2000}}
\* ordered amounts 5% apart, a negative one included
TrendRecords == {Plain(n) : n \in {-20, 19, 20, 21}}
\* several categories, numeric amounts
CategoryRecords ==
    {Rec(Num(n), c, Undefined, Undefined) :
        n \in {-1, 1, 2}, c \in {Undefined, Str("food"), Str("rent")}}
\* raw records as a caller may pass them
RawAmounts ==
    {Undefined, Null, Num(0), Num(5), Num(-3), Str(""), Str("abc"), Str("0.07")}
RawCategories == {Undefined, Null, Str(""), Str("food")}
RawRecords ==
    {Rec(a, c, ca, d) : a \in RawAmounts, c \in RawCategories,
                        ca \in {Undefined, Null, Date(1)},
                        d \in {Undefined, Date(2)}}
\* two categories, numeric and non-numeric amounts
MixedRecords ==
    {Rec(a, c, Undefined, Undefined) :
        a \in {Num(1), Num(2), Str("abc")}, c \in {Undefined, Str("food")}}

\* expenses is an array of at most max elements of S
ArrayOver(S, max) == \E k \in 0..max : \E s \in [1..k -> S] : expenses = Arr(s)

NoOutcome == [t |-> "none"]
NoResponse == [t |-> "none"]
NoStats == [t |-> "none"]

StatsInit ==
    /\ genAI = "null"
    /\ pc = "input"
    /\ op = "computeBasicStats"
    /\ route = "none"
    /\ \/ expenses \in {Null, Undefined}
       \/ ArrayOver(RiskRecords, MaxRiskLen)
       \/ ArrayOver(AvgRecords, MaxAvgLen)
       \/ ArrayOver(ExampleRecords, MaxExampleLen)
       \/ ArrayOver(TrendRecords, MaxTrendLen)
       \/ ArrayOver(CategoryRecords, MaxCatLen)
       \/ ArrayOver(RawRecords \cup {Null}, MaxRawLen)
       \/ ArrayOver(MixedRecords, MaxCatLen)
    /\ stats = NoStats
    /\ outcome = NoOutcome
    /\ calls = 0
    /\ response = NoResponse

ComputeBasicStats ==
    /\ pc = "input"
    /\ stats' = computeBasicStats(expenses)
    /\ pc' = "computed"
    /\ UNCHANGED <<genAI, op, route, expenses, outcome, calls, response>>

StatsNext == ComputeBasicStats

StatsSpec == StatsInit /\ [][StatsNext]_vars

----------------------------------------------------------------------------
(* Properties of computeBasicStats, stated on the computed summary.        *)

Computed == pc = "computed" /\ stats.t = "stats"
Count == Len(stats.normalized)
AmountsOf(norm) == [i \in 1..Len(norm) |-> norm[i].amount]
IntegerCents == \A i \in 1..Count : stats.normalized[i].amount.t = "number"
Total == stats.totalAmount.n
Abs(x) == IF x < 0 THEN -x ELSE x

\* C4 as stated: risk level at the boundary totals 799.99, 800.00, 800.01,
\* 2000.00 and 2000.01 is low, medium, medium, medium and high.
C4_RiskBoundaries_AsStated ==
    (Computed /\ IntegerCents) =>
        /\ (Total = 79999 => stats.riskLevel = "low")
        /\ (Total = 80000 => stats.riskLevel = "medium")
        /\ (Total = 80001 => stats.riskLevel = "medium")
        /\ (Total = 200000 => stats.riskLevel = "medium")
        /\ (Total = 200001 => stats.riskLevel = "high")

\* C4 amended: a total of exactly 800.00 is low; the other four boundary
\* totals are as stated (799.99 low, 800.01 medium, 2000.00 medium,
\* 2000.01 high).
C4_RiskBoundaries ==
    (Computed /\ IntegerCents) =>
        /\ (Total = 79999 => stats.riskLevel = "low")
        /\ (Total = 80000 => stats.riskLevel = "low")
        /\ (Total = 80001 => stats.riskLevel = "medium")
        /\ (Total = 200000 => stats.riskLevel = "medium")
        /\ (Total = 200001 => stats.riskLevel = "high")

C4_Witness ==
    Computed /\ IntegerCents /\ Total = 80000 /\ stats.riskLevel = "low"

AverageError == stats.averageTransaction.n * Count - Total

\* C5 as stated: for count > 0, averageTransaction * count is within one
\* cent of totalAmount.
C5_AverageTolerance_AsStated ==
    (Computed /\ IntegerCents /\ Count > 0) => Abs(AverageError) <= 1

\* C5 amended: for count > 0, averageTransaction * count differs from
\* totalAmount by at most half a cent per record (0.005 * count), which is
\* within one cent whenever count <= 3.
C5_AverageTolerance ==
    (Computed /\ IntegerCents /\ Count > 0) =>
        /\ 2 * Abs(AverageError) <= Count
        /\ (Count <= 3 => Abs(AverageError) <= 1)

C5_Witness ==
    Computed /\ IntegerCents /\ Count = 4 /\ Abs(AverageError) = 2

\* a >= b on numbers
Ge(a, b) == ~IsNaN(a) /\ ~IsNaN(b) /\ a.n >= b.n

\* C6 as stated: topCategory is a key of categoryBreakdown whose sum is
\* greater than or equal to the sum of every other key, and it is null
\* exactly when the list has no records.
C6_TopCategoryMaximal ==
    Computed =>
        /\ (stats.topCategory = Null <=> Count = 0)
        /\ (stats.topCategory # Null =>
              /\ stats.topCategory.t = "string"
              /\ HasKey(stats.categoryBreakdown, stats.topCategory.s)
              /\ \A i \in 1..Len(stats.categoryBreakdown) :
                    stats.categoryBreakdown[i].key # stats.topCategory.s =>
                        Ge(GetKey(stats.categoryBreakdown, stats.topCategory.s),
                           stats.categoryBreakdown[i].sum))

\* The statement of C6 restricted to lists whose amounts are all numbers.
TopCategoryMaximalOnNumbers ==
    (Computed /\ IntegerCents) => C6_TopCategoryMaximal

RECURSIVE SumRange(_, _, _)
SumRange(a, lo, hi) == IF lo > hi THEN 0 ELSE a[hi].n + SumRange(a, lo, hi - 1)

ClaimThird == IF Count \div 3 >= 1 THEN Count \div 3 ELSE 1
ClaimFirstSum == SumRange(AmountsOf(stats.normalized), 1, ClaimThird)
ClaimLastSum ==
    SumRange(AmountsOf(stats.normalized), Count - ClaimThird + 1, Count)

\* C7: fewer than 3 records always give "stable"; for n >= 3, with
\* third = max(1, floor(n/3)), the trend is "increasing" if
\* lastSum > 1.05 * firstSum, else "decreasing" if lastSum < 0.95 * firstSum,
\* else "stable"; [10,10,20] is increasing, [20,10,10] decreasing and
\* [10,10,10] stable.
C7_TrendRule ==
    Computed =>
        /\ (Count < 3 => stats.spendingTrend = "stable")
        /\ ((Count >= 3 /\ IntegerCents) =>
              stats.spendingTrend =
                IF 100 * ClaimLastSum > 105 * ClaimFirstSum THEN "increasing"
                ELSE IF 100 * ClaimLastSum < 95 * ClaimFirstSum THEN "decreasing"
                ELSE "stable")
        /\ (AmountsOf(stats.normalized) = <<Num(1000), Num(1000), Num(2000)>>
              => stats.spendingTrend = "increasing")
        /\ (AmountsOf(stats.normalized) = <<Num(2000), Num(1000), Num(1000)>>
              => stats.spendingTrend = "decreasing")
        /\ (AmountsOf(stats.normalized) = <<Num(1000), Num(1000), Num(1000)>>
              => stats.spendingTrend = "stable")

C7_Witness ==
    /\ Computed
    /\ Count = 6
    /\ IntegerCents
    /\ 100 * ClaimLastSum < 95 * ClaimFirstSum
    /\ stats.spendingTrend = "decreasing"

\* C8 as stated: the normalized amount is 0 when the raw amount is missing
\* or non-numeric and the raw amount's numeric value otherwise; the category
\* is "others" when the raw category is falsy and the raw category
\* otherwise; the date is createdAt if truthy, else date if truthy, else
\* null.
ClaimAmount(raw) ==
    IF raw.t = "number" THEN raw
    ELSE IF raw.t = "string" /\ raw.s \in DOMAIN DecimalText
         THEN Num(DecimalText[raw.s])
         ELSE Num(0)

C8_Normalization ==
    Computed =>
        \A i \in 1..Count :
            LET raw == expenses.items[i]
                norm == stats.normalized[i]
            IN /\ norm.amount = ClaimAmount(raw.amount)
               /\ norm.category =
                    (IF Falsy(raw.category) THEN Str("others") ELSE raw.category)
               /\ norm.date =
                    (IF ~Falsy(raw.createdAt) THEN raw.createdAt
                     ELSE IF ~Falsy(raw.date) THEN raw.date
                     ELSE Null)

\* C10 as stated: "increasing" implies the last third sums to strictly more
\* than the first third, "decreasing" implies strictly less, and equal sums
\* give "stable", negative and zero amounts included.
C10_TrendDirection_AsStated ==
    (Computed /\ IntegerCents /\ Count >= 3) =>
        /\ (stats.spendingTrend = "increasing" => ClaimLastSum > ClaimFirstSum)
        /\ (stats.spendingTrend = "decreasing" => ClaimLastSum < ClaimFirstSum)
        /\ (ClaimLastSum = ClaimFirstSum => stats.spendingTrend = "stable")

\* C10 amended: the same three implications, for lists whose first third
\* has a sum that is not negative.
C10_TrendDirection ==
    (Computed /\ IntegerCents /\ Count >= 3 /\ ClaimFirstSum >= 0) =>
        /\ (stats.spendingTrend = "increasing" => ClaimLastSum > ClaimFirstSum)
        /\ (stats.spendingTrend = "decreasing" => ClaimLastSum < ClaimFirstSum)
        /\ (ClaimLastSum = ClaimFirstSum => stats.spendingTrend = "stable")

C10_Witness ==
    /\ Computed
    /\ IntegerCents
    /\ Count >= 3
    /\ ClaimFirstSum = 0
    /\ ClaimLastSum = 0
    /\ stats.spendingTrend = "stable"

----------------------------------------------------------------------------
(* Module load: the client reference is set once from the credential.      *)

LoadGenAI(key, constructorThrows) ==
    LET GEMINI_KEY == Or(key, Null)
    IN IF Falsy(GEMINI_KEY) THEN "null"
       ELSE IF constructorThrows THEN "null"
       ELSE "client"

----------------------------------------------------------------------------
(* Provider results and the extraction of their text.                      *)

Fn(returns) == [t |-> "function", returns |-> returns]
Response(text) == [t |-> "response", text |-> text]
Result(resp, text, circular) ==
    [t |-> "result", response |-> resp, text |-> text,
     circular |-> circular]

SixKeys ==
    {"topCategory", "totalSpent", "averageTransaction", "spendingTrend",
     "quickTip", "riskLevel"}
Object(keys) == [t |-> "object", keys |-> keys]

SixKeyJson ==
    "{\"topCategory\":\"food\",\"totalSpent\":15,\"averageTransaction\":15,\"spendingTrend\":\"stable\",\"quickTip\":\"Cook at home\",\"riskLevel\":\"low\"}"

\* JSON.stringify(result): function-valued and undefined properties are
\* left out; a circular structure throws.
JSONStringify(result) ==
    IF result.circular THEN Thrown
    ELSE IF result.response.t = "response"
         THEN IF result.response.text.t = "string"
              THEN Str("{\"response\":{\"text\":\"...\"}}")
              ELSE Str("{\"response\":{}}")
         ELSE IF result.text.t = "undefined" THEN Str("{}")
              ELSE Str("{\"text\":...}")

\* String(v) of the values a text accessor returns
ToStringJS(v) ==
    CASE v.t = "string" -> v.s
      [] v.t = "number" -> ToString(v.n)
      [] OTHER -> v.t

\* JSON.parse(text)
JSONParse(text) ==
    LET src == ToStringJS(text)
    IN CASE src = SixKeyJson -> Object(SixKeys)
         [] src = "{\"riskLevel\":\"low\"}" -> Object({"riskLevel"})
         [] src = "{}" -> Object({})
         [] src = "{\"response\":{}}" -> Object({"response"})
         [] src = "42" -> Num(42)
         [] src = "null" -> Null
         [] OTHER -> Thrown

safeExtractText(result) ==
    IF Falsy(result) THEN Str("")
    ELSE LET attempt ==
                 IF result.response.t = "response"
                        /\ result.response.text.t = "function"
                 THEN result.response.text.returns
                 ELSE IF result.response.t = "response"
                        /\ result.response.text.t = "string"
                 THEN result.response.text
                 ELSE IF result.text.t = "string"
                 THEN result.text
                 ELSE JSONStringify(result)
         IN IF attempt = Thrown THEN JSONStringify(result) ELSE attempt

Texts ==
    {Str(SixKeyJson), Str("{\"riskLevel\":\"low\"}"), Str("42"),
     Str("Here is your analysis"), Str("")}

ProviderResults ==
    {Null}
      \cup {Result(Response(Fn(v)), Undefined, FALSE) :
                v \in Texts \cup {Num(42), Undefined, Thrown}}
      \cup {Result(Response(v), Undefined, FALSE) :
                v \in {Str(SixKeyJson), Str("Here is your analysis")}}
      \cup {Result(Undefined, v, FALSE) :
                v \in {Str(SixKeyJson), Str("Here is your analysis")}}
      \cup {Result(Undefined, Undefined, FALSE),
            Result(Response(Undefined), Undefined, FALSE),
            Result(Undefined, Undefined, TRUE),
            Result(Response(Fn(Thrown)), Undefined, TRUE)}

----------------------------------------------------------------------------
(* analyzeExpenses and getExpenseInsights                                  *)

Resolved(v) == [t |-> "resolved", value |-> v]
Rejected == [t |-> "rejected"]

\* A template literal: its fixed text and the values interpolated in it.
Template(text, st) ==
    [t |-> "string", s |-> text,
     total |-> st.totalAmount,
     top |-> Or(st.topCategory, Str("N/A")),
     avg |-> st.averageTransaction,
     trend |-> st.spendingTrend]

DeterministicAnalysis(st) == Template("Total spent: ... Suggested actions: ...", st)
FallbackAnalysis(st) == Template("AI unavailable - fallback analysis: ...", st)

InsightsObject(st, tip) ==
    [t |-> "object", keys |-> SixKeys,
     topCategory |-> st.topCategory,
     totalSpent |-> st.totalAmount,
     averageTransaction |-> st.averageTransaction,
     spendingTrend |-> st.spendingTrend,
     quickTip |->
        [t |-> "string", s |-> tip,
         top |-> Or(st.topCategory, Str("high-cost categories"))],
     riskLevel |-> st.riskLevel]

ReduceTip == "Consider reducing expenses in ... by 10%"
TrackTip == "Consider tracking and reducing ... spending."

\* Slip: the catch block rethrows instead of falling back.
AnalyzeOnErrorRethrows(exps) == Rejected

\* the catch blocks: the statistics are computed again, outside any try
AnalyzeOnError(exps) ==
    LET st == computeBasicStats(exps)
    IN IF st = Thrown THEN Rejected ELSE Resolved(FallbackAnalysis(st))

InsightsOnError(exps) ==
    LET st == computeBasicStats(exps)
    IN IF st = Thrown THEN Rejected ELSE Resolved(InsightsObject(st, TrackTip))

OnError(o, exps) ==
    IF o = "analyzeExpenses" THEN AnalyzeOnError(exps) ELSE InsightsOnError(exps)

WithoutProvider(o, st) ==
    IF o = "analyzeExpenses" THEN Resolved(DeterministicAnalysis(st))
    ELSE Resolved(InsightsObject(st, ReduceTip))

\* The synchronous part of either operation, up to the await: the values
\* of stats, outcome, calls and pc it leaves.
ServiceStart(o, exps, modelThrows) ==
    LET st == computeBasicStats(exps) IN
    IF st = Thrown
    THEN [stats |-> NoStats, outcome |-> OnError(o, exps), calls |-> 0,
          pc |-> "done"]
    ELSE IF genAI = "null"
    THEN [stats |-> st, outcome |-> WithoutProvider(o, st), calls |-> 0,
          pc |-> "done"]
    ELSE IF modelThrows
    THEN [stats |-> st, outcome |-> OnError(o, exps), calls |-> 0,
          pc |-> "done"]
    ELSE [stats |-> st, outcome |-> NoOutcome, calls |-> 1,
          pc |-> "awaiting"]

\* The part after the await, when generateContent resolved with result.
AnalyzeResume(result) ==
    LET text == safeExtractText(result)
    IN IF text = Thrown THEN AnalyzeOnError(expenses) ELSE Resolved(text)

InsightsResume(result) ==
    LET text == safeExtractText(result)
    IN IF text = Thrown THEN InsightsOnError(expenses)
       ELSE LET parsed == JSONParse(text)
            IN IF parsed = Thrown
               THEN Resolved(InsightsObject(stats, TrackTip))
               ELSE Resolved(parsed)

ServiceResume(result) ==
    IF op = "analyzeExpenses" THEN AnalyzeResume(result)
    ELSE InsightsResume(result)

----------------------------------------------------------------------------
(* The controllers                                                          *)

Send(status, success, payload) ==
    [t |-> "response", status |-> status, success |-> success,
     payload |-> payload]

\* what the controller sends once the awaited service promise has settled
RespondSettled(settled) ==
    IF settled.t = "resolved" THEN Send(200, TRUE, settled.value)
    ELSE Send(500, FALSE, Null)

RespondIfRouted(r, settled) ==
    IF r = "none" \/ settled.t = "none" THEN NoResponse
    ELSE RespondSettled(settled)

----------------------------------------------------------------------------
(* The service and its controllers as a state machine.                     *)

MaxListLen == 2
MaxDocs == 2

WellFormed == Rec(Num(150000), Str("food"), Date(1), Undefined)
Malformed == Rec(Str("abc"), Null, Undefined, Undefined)

Documents == {WellFormed, Malformed}

\* getGenerativeModel is reached only with a client
ModelThrows == IF genAI = "null" THEN {FALSE} ELSE BOOLEAN

Init ==
    /\ \E key \in {Undefined, Str(""), Str("AIza-key")}, ctorThrows \in BOOLEAN :
          genAI = LoadGenAI(key, ctorThrows)
    /\ pc = "idle"
    /\ op = "none"
    /\ route = "none"
    /\ expenses = Undefined
    /\ stats = NoStats
    /\ outcome = NoOutcome
    /\ calls = 0
    /\ response = NoResponse

Invoke(o, r, exps, modelThrows) ==
    LET s == ServiceStart(o, exps, modelThrows) IN
    /\ op' = o
    /\ route' = r
    /\ expenses' = exps
    /\ stats' = s.stats
    /\ outcome' = s.outcome
    /\ calls' = s.calls
    /\ pc' = s.pc
    /\ response' = RespondIfRouted(r, s.outcome)
    /\ UNCHANGED genAI

\* A caller passes null, or an array whose elements are documents or null.
ServiceInputs ==
    {Null} \cup
    {Arr(s) : s \in UNION {[1..k -> Documents \cup {Null}] : k \in 0..MaxListLen}}

analyzeExpenses ==
    /\ pc \in {"idle", "done"}
    /\ \E exps \in ServiceInputs, modelThrows \in ModelThrows :
          Invoke("analyzeExpenses", "none", exps, modelThrows)

getExpenseInsights ==
    /\ pc \in {"idle", "done"}
    /\ \E exps \in ServiceInputs, modelThrows \in ModelThrows :
          Invoke("getExpenseInsights", "none", exps, modelThrows)

\* The controller body once Expense.find(...).sort(...) has settled: the
\* query rejected (500), found nothing (404), or the service is called.
Handle(r, o, found, modelThrows) ==
    IF found = Thrown \/ Falsy(found) \/ Len(found.items) = 0
    THEN /\ op' = "none"
         /\ route' = r
         /\ expenses' = found
         /\ stats' = NoStats
         /\ outcome' = NoOutcome
         /\ calls' = 0
         /\ pc' = "done"
         /\ response' =
              IF found = Thrown THEN Send(500, FALSE, Null)
              ELSE Send(404, FALSE, Null)
         /\ UNCHANGED genAI
    ELSE Invoke(o, r, found, modelThrows)

\* Expense.find(...).sort(...) rejects, or resolves with an array of
\* documents.
QueryResults ==
    {Thrown} \cup
    {Arr(s) : s \in UNION {[1..k -> Documents] : k \in 0..MaxDocs}}

getAIExpenseAnalysis ==
    /\ pc \in {"idle", "done"}
    /\ \E found \in QueryResults, modelThrows \in ModelThrows :
          Handle("/analysis", "analyzeExpenses", found, modelThrows)

getAIExpenseInsights ==
    /\ pc \in {"idle", "done"}
    /\ \E found \in QueryResults, modelThrows \in ModelThrows :
          Handle("/insights", "getExpenseInsights", found, modelThrows)

Settle(settled) ==
    /\ outcome' = settled
    /\ pc' = "done"
    /\ response' = RespondIfRouted(route, settled)
    /\ UNCHANGED <<genAI, op, route, expenses, stats, calls>>

GenerateContentResolves ==
    /\ pc = "awaiting"
    /\ \E result \in ProviderResults : Settle(ServiceResume(result))

\* Slip: a rejected call is tried again.
GenerateContentRejectsRetry ==
    /\ pc = "awaiting"
    /\ calls < 3
    /\ calls' = calls + 1
    /\ UNCHANGED <<genAI, pc, op, route, expenses, stats, outcome, response>>

GenerateContentRejects ==
    /\ pc = "awaiting"
    /\ Settle(OnError(op, expenses))

Next ==
    \/ analyzeExpenses
    \/ getExpenseInsights
    \/ getAIExpenseAnalysis
    \/ getAIExpenseInsights
    \/ GenerateContentResolves
    \/ GenerateContentRejects

Spec == Init /\ [][Next]_vars

----------------------------------------------------------------------------
(* Properties of the two public operations and of the controllers.         *)

Done(o) == pc = "done" /\ op = o
AllRecords == ~Falsy(expenses) /\ \A i \in 1..Len(expenses.items) :
                                      expenses.items[i].t = "record"

\* C1 as stated, on lists whose elements are all records: every
\* invocation of getExpenseInsights resolves to an object that has exactly
\* the six keys topCategory, totalSpent, averageTransaction, spendingTrend,
\* quickTip and riskLevel, whatever the provider does.
C1_InsightsSixKeys ==
    (Done("getExpenseInsights") /\ AllRecords) =>
        /\ outcome.t = "resolved"
        /\ outcome.value.t = "object"
        /\ outcome.value.keys = SixKeys

\* C2 as stated, on lists whose elements are all records: every
\* invocation of analyzeExpenses resolves with a string and never rejects,
\* whatever the provider does.
C2_AnalyzeString ==
    (Done("analyzeExpenses") /\ AllRecords) =>
        /\ outcome.t = "resolved"
        /\ outcome.value.t = "string"

Handled == pc = "done" /\ route # "none"
QuerySucceeded == expenses # Thrown

\* C3: for /analysis and /insights, when the expense query succeeds, the
\* response is 404 with success=false if and only if the user has no
\* expenses and otherwise 200 with success=true, whatever the provider
\* state; a 500 is sent only when the query itself failed.
C3_ControllerStatus ==
    Handled =>
        /\ response.t = "response"
        /\ (QuerySucceeded =>
              /\ (response.status = 404 <=> Len(expenses.items) = 0)
              /\ (response.status = 404 => response.success = FALSE)
              /\ (Len(expenses.items) > 0 =>
                    response.status = 200 /\ response.success = TRUE))
        /\ (response.status = 500 => ~QuerySucceeded)

FallbackOutcomes ==
    {Resolved(FallbackAnalysis(stats)), Resolved(InsightsObject(stats, TrackTip))}

C3_Witness ==
    /\ Handled
    /\ QuerySucceeded
    /\ genAI = "client"
    /\ calls = 1
    /\ outcome \in FallbackOutcomes
    /\ response.status = 200

ParseFails(result) ==
    /\ safeExtractText(result) # Thrown
    /\ JSONParse(safeExtractText(result)) = Thrown

\* C9: an invocation calls generateContent at most once and never when the
\* provider is unavailable; after the call rejects, or its text fails to
\* parse, the invocation completes with the deterministic fallback without
\* another call; the client reference never changes after module load.
C9_SingleAttempt ==
    /\ [](calls <= 1 /\ (genAI = "null" => (calls = 0 /\ pc # "awaiting")))
    /\ [][/\ genAI' = genAI
          /\ (pc = "awaiting" => (pc' = "done" /\ calls' = calls))
          /\ (GenerateContentRejects => outcome' \in FallbackOutcomes)
          /\ \A result \in ProviderResults :
                (/\ pc = "awaiting"
                 /\ op = "getExpenseInsights"
                 /\ ParseFails(result)
                 /\ Settle(ServiceResume(result)))
                    => outcome' = Resolved(InsightsObject(stats, TrackTip))
         ]_vars

C9_Witness ==
    /\ pc = "done"
    /\ op = "getExpenseInsights"
    /\ calls = 1
    /\ outcome = Resolved(InsightsObject(stats, TrackTip))

====
